---- MODULE Spec2Model ----
(***************************************************************************)
(* Model of c64-kitty.                                                     *)
(*                                                                         *)
(* Spec: the audio bridge. The Sample Queue shared by the pacing loop      *)
(* (producer, audio_from_emulator) and the ALSA playback thread (consumer, *)
(* playback_thread_func), the ALSA driver's lifecycle (audio_init,         *)
(* audio_cleanup), and the PulseAudio backend's push, which writes         *)
(* straight to the sound server. Each thread is a program counter (mpc:    *)
(* the pacing thread, ppc: the playback thread) and one action per         *)
(* statement group of the C source. Statements protected by buffer_mutex   *)
(* are separate steps, guarded only by the program counter: mutual         *)
(* exclusion is a property of the lock steps, not an assumption of the     *)
(* critical sections. SpecLive adds the fairness of the playback thread    *)
(* and of audio_cleanup; SpecAudioFaults adds the failure of realloc in    *)
(* audio_from_emulator and of the steps of audio_init.                     *)
(*                                                                         *)
(* SpecMac: the macOS backend, where audio_from_emulator and the audio     *)
(* queue's BufferCallback share the queue with no lock.                    *)
(*                                                                         *)
(* SpecB64: base64_encode applied to byte sequences.                       *)
(*                                                                         *)
(* SpecMain: the main program, from parse_config's result through the      *)
(* pacing loop (c64_exec, process_keyboard, kitty_update_display record by *)
(* record, the sleep, the PRG test) to the cleanup. SpecMainLive adds the  *)
(* fairness of the main thread, SpecMainNoMemory the failure of malloc in  *)
(* kitty_update_display, SpecMainReadFault a short read in load_prg_file.  *)
(***************************************************************************)
EXTENDS Integers, Sequences, FiniteSets, TLC

(***************************************************************************)
(* Bounds of the model.                                                    *)
(***************************************************************************)
\* Queue capacity, scaled down so that TLC can fill the queue: the source
\* sets 1024*64 (audio_linux_alsa.c:9) and uses it only in the capacity test.
MAX_C64_BUFFER_LEN == 2
\* Largest num_samples of one audio_from_emulator call.
MaxSamples == 2
\* Largest total number of samples the emulator hands over in one run.
MaxTotal == 4
\* Largest period size the device may negotiate (the source asks for
\* sample_rate / 10 and takes what snd_pcm_hw_params_set_period_size_near gives).
MaxPeriod == 2
\* Largest number of consecutive underruns counted.
MaxUnderruns == 2
\* Room of the PulseAudio server's playback buffer, in samples.
PaBufferSize == 2
\* Longest input handed to base64_encode on its own.
MaxInputLen == 4
\* Largest payload of one record, scaled down so that a frame of a few pixels
\* takes several records: the source sets 4096 (c64-kitty.c:128).
chunk_size == 8
\* The quantum in microseconds, scaled down: the source sets 33333
\* (c64-kitty.c:46).
FRAME_USEC == 2
\* Longest real time the work of one iteration takes, above the quantum.
MaxWork == 4
\* Largest number of iterations of the pacing loop.
MaxFrames == 4
\* The value of frame at which the PRG file is loaded, scaled down: the
\* source tests frame == 90 (c64-kitty.c:402).
PRG_LOAD_FRAME == 2
\* Number of values of the 64 bit counters, scaled down: the differences
\* the loop computes stay far below half of it, as they do in the source.
UINT64_RANGE == 1024

(***************************************************************************)
(* Samples.                                                                *)
(***************************************************************************)
\* Float amplitudes the emulator produces, in [-1.0, 1.0], as exact dyadic
\* fractions <<numerator, denominator>>: -0.5 and 1.0.
Amplitudes == { <<-1, 2>>, <<1, 1>> }

\* C conversion of a real to an integer type: truncation toward zero.
TruncDiv(n, d) == IF n >= 0 THEN n \div d ELSE -((-n) \div d)

\* (short)(samples[j] * 32767)
ToShort(a) == TruncDiv(a[1] * 32767, a[2])

\* A cell of a heap block that was allocated and never written.
Uninit == 65536

Min(a, b) == IF a < b THEN a ELSE b

Zeros_NoMemset(n) == [i \in 1..n |-> Uninit]
\* memset(playback_buffer, 0, buffer_size)
Zeros(n) == [i \in 1..n |-> 0]

Convert(s) == [i \in 1..Len(s) |-> ToShort(s[i])]

VARIABLES
    backend,          \* the audio backend the build links: "alsa", "pulse", "macos"
    calls,            \* history (macOS): calls begun, and whether two overlapped
    mpc,              \* program counter of the pacing thread (main)
    quit_requested,   \* main: quit_requested
    samples,          \* audio_from_emulator: samples[0..num_samples-1]
    j,                \* audio_from_emulator: loop index j
    buffer_mutex,     \* AudioState.buffer_mutex: its owner, or "none"
    c64_buffer,       \* AudioState.c64_buffer: the heap block, cell by cell
    c64_buffer_len,   \* AudioState.c64_buffer_len
    thread_running,   \* AudioState.thread_running
    pcm,              \* state of AudioState.pcm_handle's device
    period_size,      \* AudioState.period_size
    ppc,              \* program counter of the playback thread
    playback_buffer,  \* playback_thread_func: playback_buffer
    samples_to_copy,  \* playback_thread_func: samples_to_copy
    err,              \* playback_thread_func: err
    underruns,        \* consecutive underruns the device reported
    pa_writable,      \* PulseAudio: room left in the server's playback buffer
    pa_left,          \* pa_simple_write: samples of the call not yet written
    overflow,         \* the "!" overflow indicator was printed by this call
    sent,             \* history: every amplitude handed to audio_from_emulator
    accepted,         \* history: every amplitude a push copied into the queue
    got,              \* history: every sample the playback thread removed
    push_pre,         \* history: <<block, length>> when the push took the lock
    pop_pre,          \* history: the queue when the pop took the lock
    data,             \* base64_encode: data[0..input_length-1]
    encoded_data,     \* base64_encode, kitty_update_display: encoded_data
    b64_ret,          \* base64_encode: the value returned, -1 before a call
    ghostty_mode,     \* EmuConfig.ghostty_mode
    kitty_mode,       \* EmuConfig.kitty_mode
    prg_filename,     \* EmuConfig.prg_filename: "NULL" or a file name
    width,            \* main: width
    height,           \* main: height
    kitty_id,         \* main: kitty_id
    fb,               \* main: fb, the framebuffer byte by byte, "NULL" once freed
    frame,            \* main: frame
    frame_number,     \* kitty_update_display: frame_number
    encoded_offset,   \* kitty_update_display: encoded_offset
    stdout_buf,       \* stdout: what was written and is not flushed yet
    terminal,         \* what the terminal received since the last call began
    stderr_log,       \* stderr: the messages written
    create_sent,      \* history: a create record (a=T) was written to stdout
    total_us_emulated,\* main: total_us_emulated
    total_us_start,   \* main: total_us_start
    now,              \* the wall clock time_us() reads, in microseconds
    delta_us,         \* main: delta_us
    to_sleep_us,      \* main: to_sleep_us
    raw_mode,         \* the terminal is in the raw mode enable_raw_mode sets
    exit_code,        \* the value main returned, -1 while it runs
    execs,            \* history: number of c64_exec calls
    max_elapsed,      \* history: the longest real time one iteration's work took
    prg_loads         \* history: number of load_prg_file calls

\* The variables of the encoder, of the frame emitter and of the pacing loop.
b64Vars == << data, b64_ret >>
configVars == << ghostty_mode, kitty_mode, prg_filename >>
displayVars == << width, height, kitty_id, fb, frame, frame_number, encoded_data,
                 encoded_offset, stdout_buf, terminal, stderr_log, create_sent >>
paceVars == << total_us_emulated, total_us_start, now, delta_us, to_sleep_us,
              raw_mode, exit_code, execs, max_elapsed, prg_loads >>
emuVars == << b64Vars, configVars, displayVars, paceVars >>
\* What the main program's own steps leave alone in the audio bridge, whose
\* driver they open and close as a whole.
audioRest == << backend, calls, samples, j, buffer_mutex, c64_buffer, c64_buffer_len,
               period_size, ppc, playback_buffer, samples_to_copy, err,
               underruns, pa_writable, pa_left, overflow, sent, accepted, got, push_pre,
               pop_pre >>

vars == << backend, calls, mpc, quit_requested, samples, j, buffer_mutex, c64_buffer,
           c64_buffer_len, thread_running, pcm, period_size, ppc,
           playback_buffer, samples_to_copy, err, underruns, pa_writable,
           pa_left, overflow, sent, accepted, got, push_pre, pop_pre, emuVars >>

mainVars == << mpc, quit_requested, samples, j, overflow, sent, accepted, push_pre >>
threadVars == << ppc, playback_buffer, samples_to_copy, err, underruns, got, pop_pre >>
pulseVars == << pa_writable, pa_left >>

\* The Sample Queue: the first c64_buffer_len cells of the block (those of
\* them that exist, where the block is shorter than the length says).
Queue == SubSeq(c64_buffer, 1, Min(c64_buffer_len, Len(c64_buffer)))

\* The frame emitter and the pacing loop before main runs them.
MainOff ==
    /\ encoded_data = << >>
    /\ ghostty_mode = 1
    /\ kitty_mode = 0
    /\ prg_filename = "NULL"
    /\ width = 0
    /\ height = 0
    /\ kitty_id = 0
    /\ fb = << >>
    /\ frame = 0
    /\ frame_number = 0
    /\ encoded_offset = 0
    /\ stdout_buf = << >>
    /\ terminal = << >>
    /\ stderr_log = << >>
    /\ create_sent = FALSE
    /\ total_us_emulated = 0
    /\ total_us_start = 0
    /\ now = 0
    /\ delta_us = 0
    /\ to_sleep_us = 0
    /\ raw_mode = FALSE
    /\ exit_code = -1
    /\ execs = 0
    /\ max_elapsed = 0
    /\ prg_loads = 0

\* No call of base64_encode on its own.
B64Off ==
    /\ data = << >>
    /\ b64_ret = -1

\* The audio bridge before audio_init.
AudioOff ==
    /\ samples = << >>
    /\ j = 0
    /\ buffer_mutex = "none"
    /\ c64_buffer = << >>
    /\ c64_buffer_len = 0
    /\ thread_running = 0
    /\ pcm = "CLOSED"
    /\ period_size = 0
    /\ ppc = "none"
    /\ playback_buffer = << >>
    /\ samples_to_copy = 0
    /\ err = "none"
    /\ underruns = 0
    /\ pa_writable = 0
    /\ pa_left = 0
    /\ overflow = FALSE
    /\ sent = << >>
    /\ accepted = << >>
    /\ calls = [pushes |-> 0, pops |-> 0, overlapped |-> FALSE]
    /\ got = << >>
    /\ push_pre = << >>
    /\ pop_pre = << >>

Init ==
    /\ backend \in {"alsa", "pulse"}
    /\ mpc = "init"
    /\ quit_requested = 0
    /\ AudioOff
    /\ MainOff
    /\ B64Off


(***************************************************************************)
(* Primitives.                                                             *)
(***************************************************************************)
\* realloc(block, n cells): the old cells that fit are kept, new ones are
\* uninitialised. realloc(NULL, n) is malloc(n): the NULL block is << >>.
Realloc(block, n) == [i \in 1..n |-> IF i <= Len(block) THEN block[i] ELSE Uninit]

MutexFree_NoWait == TRUE
\* pthread_mutex_lock returns only when no thread owns the mutex.
MutexFree == buffer_mutex = "none"

QueueFull_OffByOne(len) == len > MAX_C64_BUFFER_LEN
\* if (state->c64_buffer_len >= MAX_C64_BUFFER_LEN)
QueueFull(len) == len >= MAX_C64_BUFFER_LEN

\* All the sample arrays one audio_from_emulator call may receive.
SampleArrays == UNION { [1..n -> Amplitudes] : n \in 1..MaxSamples }

(***************************************************************************)
(* The pacing thread: main's loop (c64-kitty.c).                           *)
(***************************************************************************)
\* audio_init (ALSA), the path on which every call succeeds.
AudioInit ==
    /\ backend = "alsa"
    /\ mpc = "init"
    /\ \E p \in 1..MaxPeriod : period_size' = p
    /\ pcm' = "PREPARED"
    /\ thread_running' = 1
    /\ ppc' = "t_start"
    /\ mpc' = "while"
    /\ UNCHANGED << quit_requested, samples, j, buffer_mutex, c64_buffer,
                    c64_buffer_len, playback_buffer, samples_to_copy, err,
                    underruns, overflow, sent, accepted, got, push_pre, pop_pre, backend, calls >>
    /\ UNCHANGED pulseVars
    /\ UNCHANGED emuVars

\* while (!quit_requested): another iteration, or on to the cleanup.
MainWhile ==
    /\ mpc = "while"
    /\ mpc' = IF quit_requested = 0 THEN "exec" ELSE "c_check"
    /\ UNCHANGED << quit_requested, samples, j, overflow, sent, accepted, push_pre, backend, calls,
                    buffer_mutex, c64_buffer, c64_buffer_len, thread_running,
                    pcm, period_size >>
    /\ UNCHANGED threadVars
    /\ UNCHANGED pulseVars
    /\ UNCHANGED emuVars

\* The rest of the iteration once c64_exec has returned: process_keyboard
\* sets quit_requested, the frame is emitted, the loop sleeps.
MainEndIteration ==
    /\ mpc = "exec"
    /\ \E q \in {0, 1} : quit_requested' = q
    /\ mpc' = "while"
    /\ UNCHANGED << samples, j, overflow, sent, accepted, push_pre, backend, calls, buffer_mutex,
                    c64_buffer, c64_buffer_len, thread_running, pcm, period_size >>
    /\ UNCHANGED threadVars
    /\ UNCHANGED pulseVars
    /\ UNCHANGED emuVars

(***************************************************************************)
(* audio_from_emulator (ALSA), called by c64_exec on the pacing thread.    *)
(***************************************************************************)
PushCall ==
    /\ backend = "alsa"
    /\ mpc = "exec"
    /\ \E s \in SampleArrays :
        /\ Len(sent) + Len(s) <= MaxTotal
        /\ samples' = s
        /\ sent' = sent \o s
    /\ j' = 0
    /\ overflow' = FALSE
    /\ push_pre' = << >>
    /\ mpc' = "p_lock"
    /\ UNCHANGED << quit_requested, accepted, backend, calls, buffer_mutex, c64_buffer,
                    c64_buffer_len, thread_running, pcm, period_size >>
    /\ UNCHANGED threadVars
    /\ UNCHANGED pulseVars
    /\ UNCHANGED emuVars

PushLock ==
    /\ mpc = "p_lock"
    /\ MutexFree
    /\ buffer_mutex' = "main"
    /\ push_pre' = << c64_buffer, c64_buffer_len >>
    /\ mpc' = "p_check"
    /\ UNCHANGED << quit_requested, samples, j, overflow, sent, accepted, backend, calls,
                    c64_buffer, c64_buffer_len, thread_running, pcm, period_size >>
    /\ UNCHANGED threadVars
    /\ UNCHANGED pulseVars
    /\ UNCHANGED emuVars

\* The capacity test; on a full queue "!" is printed.
PushCheck ==
    /\ mpc = "p_check"
    /\ IF QueueFull(c64_buffer_len)
          THEN overflow' = TRUE /\ mpc' = "p_drop"
          ELSE overflow' = overflow /\ mpc' = "p_realloc"
    /\ UNCHANGED << quit_requested, samples, j, sent, accepted, push_pre, backend, calls,
                    buffer_mutex, c64_buffer, c64_buffer_len, thread_running,
                    pcm, period_size >>
    /\ UNCHANGED threadVars
    /\ UNCHANGED pulseVars
    /\ UNCHANGED emuVars

\* The full queue's exit: unlock and return. The call's parameters and
\* locals end with it.
PushDropUnlock ==
    /\ mpc = "p_drop"
    /\ buffer_mutex' = "none"
    /\ mpc' = "exec"
    /\ samples' = << >>
    /\ j' = 0
    /\ push_pre' = << >>
    /\ UNCHANGED << quit_requested, overflow, sent, accepted, backend, calls,
                    c64_buffer, c64_buffer_len, thread_running, pcm, period_size >>
    /\ UNCHANGED threadVars
    /\ UNCHANGED pulseVars
    /\ UNCHANGED emuVars

PushRealloc ==
    /\ mpc = "p_realloc"
    /\ c64_buffer' = Realloc(c64_buffer, c64_buffer_len + Len(samples))
    /\ mpc' = "p_copy"
    /\ UNCHANGED << quit_requested, samples, j, overflow, sent, accepted, push_pre, backend, calls,
                    buffer_mutex, c64_buffer_len, thread_running, pcm, period_size >>
    /\ UNCHANGED threadVars
    /\ UNCHANGED pulseVars
    /\ UNCHANGED emuVars

\* for (j = 0; j < num_samples; j++): one turn of the loop, or its end.
PushCopy ==
    /\ mpc = "p_copy"
    /\ IF j < Len(samples)
          THEN /\ c64_buffer' = [c64_buffer EXCEPT
                                    ![c64_buffer_len + 1] = ToShort(samples[j + 1])]
               /\ c64_buffer_len' = c64_buffer_len + 1
               /\ j' = j + 1
               /\ accepted' = Append(accepted, samples[j + 1])
               /\ mpc' = "p_copy"
          ELSE /\ mpc' = "p_unlock"
               /\ UNCHANGED << c64_buffer, c64_buffer_len, j, accepted >>
    /\ UNCHANGED << quit_requested, samples, overflow, sent, push_pre, backend, calls,
                    buffer_mutex, thread_running, pcm, period_size >>
    /\ UNCHANGED threadVars
    /\ UNCHANGED pulseVars
    /\ UNCHANGED emuVars

PushUnlock ==
    /\ mpc = "p_unlock"
    /\ buffer_mutex' = "none"
    /\ mpc' = "exec"
    /\ samples' = << >>
    /\ j' = 0
    /\ push_pre' = << >>
    /\ UNCHANGED << quit_requested, overflow, sent, accepted, backend, calls,
                    c64_buffer, c64_buffer_len, thread_running, pcm, period_size >>
    /\ UNCHANGED threadVars
    /\ UNCHANGED pulseVars
    /\ UNCHANGED emuVars

(***************************************************************************)
(* playback_thread_func (ALSA).                                            *)
(***************************************************************************)
sharedVars == << buffer_mutex, c64_buffer, c64_buffer_len, thread_running, pcm >>

\* size_t samples_to_play = state->period_size;
samples_to_play == period_size

\* malloc(buffer_size): one period of cells, not yet written.
ThreadStart ==
    /\ ppc = "t_start"
    /\ playback_buffer' = [i \in 1..period_size |-> Uninit]
    /\ ppc' = "t_while"
    /\ UNCHANGED << samples_to_copy, err, underruns, got, pop_pre, backend, calls, period_size >>
    /\ UNCHANGED << mainVars, sharedVars, pulseVars >>
    /\ UNCHANGED emuVars

\* while (state->thread_running), then the memset of the period buffer.
LoopRuns_Always == TRUE
\* The loop test reads the flag once per iteration.
LoopRuns == thread_running = 1

ThreadWhile ==
    /\ ppc = "t_while"
    /\ IF LoopRuns
          THEN /\ playback_buffer' = Zeros(Len(playback_buffer))
               /\ ppc' = "t_lock"
          ELSE /\ ppc' = "t_free"
               /\ UNCHANGED playback_buffer
    /\ samples_to_copy' = 0
    /\ UNCHANGED << err, underruns, got, pop_pre, backend, calls, period_size >>
    /\ UNCHANGED << mainVars, sharedVars, pulseVars >>
    /\ UNCHANGED emuVars

ThreadLock ==
    /\ ppc = "t_lock"
    /\ MutexFree
    /\ buffer_mutex' = "playback"
    /\ pop_pre' = Queue
    /\ ppc' = "t_check"
    /\ UNCHANGED << playback_buffer, samples_to_copy, err, underruns, got, backend, calls,
                    period_size, c64_buffer, c64_buffer_len, thread_running, pcm >>
    /\ UNCHANGED << mainVars, pulseVars >>
    /\ UNCHANGED emuVars

\* if (state->c64_buffer_len > 0): how much to copy; else "." is printed.
ThreadCheck ==
    /\ ppc = "t_check"
    /\ IF c64_buffer_len > 0
          THEN /\ samples_to_copy' = Min(samples_to_play, c64_buffer_len)
               /\ ppc' = "t_memcpy"
          ELSE /\ ppc' = "t_unlock"
               /\ UNCHANGED samples_to_copy
    /\ UNCHANGED << playback_buffer, err, underruns, got, pop_pre, backend, calls, period_size >>
    /\ UNCHANGED << mainVars, sharedVars, pulseVars >>
    /\ UNCHANGED emuVars

MemcpyDst_Shifted(dst, src, n) ==
    [i \in 1..Len(dst) |-> IF i <= n /\ i + 1 <= Len(src) THEN src[i + 1] ELSE dst[i]]
\* memcpy(dst, src, n cells): the first n cells of dst become those of src.
MemcpyDst(dst, src, n) == [i \in 1..Len(dst) |-> IF i <= n THEN src[i] ELSE dst[i]]

ThreadMemcpy ==
    /\ ppc = "t_memcpy"
    /\ c64_buffer # << >>
    /\ playback_buffer' = MemcpyDst(playback_buffer, c64_buffer, samples_to_copy)
    /\ ppc' = "t_memmove"
    /\ UNCHANGED << samples_to_copy, err, underruns, got, pop_pre, backend, calls, period_size >>
    /\ UNCHANGED << mainVars, sharedVars, pulseVars >>
    /\ UNCHANGED emuVars

MemmoveFront_None(block, from, n) == block
\* memmove(block, block + from, n cells): cells from+1..from+n move to the
\* front, the cells behind them keep what they held.
MemmoveFront(block, from, n) ==
    [i \in 1..Len(block) |-> IF i <= n THEN block[i + from] ELSE block[i]]

ThreadMemmove ==
    /\ ppc = "t_memmove"
    /\ c64_buffer' = IF samples_to_copy < c64_buffer_len
                        THEN MemmoveFront(c64_buffer, samples_to_copy,
                                          c64_buffer_len - samples_to_copy)
                        ELSE c64_buffer
    /\ ppc' = "t_sublen"
    /\ UNCHANGED << playback_buffer, samples_to_copy, err, underruns, got, pop_pre,
                    backend, calls, period_size, buffer_mutex, c64_buffer_len,
                    thread_running, pcm >>
    /\ UNCHANGED << mainVars, pulseVars >>
    /\ UNCHANGED emuVars

\* state->c64_buffer_len -= samples_to_copy;
LenAfterPop_Unchanged(len, n) == len
\* state->c64_buffer_len -= samples_to_copy.
LenAfterPop(len, n) == len - n

ThreadSubLen ==
    /\ ppc = "t_sublen"
    /\ c64_buffer_len' = LenAfterPop(c64_buffer_len, samples_to_copy)
    /\ got' = got \o SubSeq(playback_buffer, 1, samples_to_copy)
    /\ ppc' = "t_unlock"
    /\ UNCHANGED << playback_buffer, samples_to_copy, err, underruns, pop_pre,
                    backend, calls, period_size, buffer_mutex, c64_buffer,
                    thread_running, pcm >>
    /\ UNCHANGED << mainVars, pulseVars >>
    /\ UNCHANGED emuVars

\* pthread_mutex_unlock, then the call of snd_pcm_writei.
ThreadUnlock ==
    /\ ppc = "t_unlock"
    /\ buffer_mutex' = "none"
    /\ ppc' = "t_write"
    /\ UNCHANGED << playback_buffer, samples_to_copy, err, underruns, got, pop_pre,
                    backend, calls, period_size, c64_buffer, c64_buffer_len,
                    thread_running, pcm >>
    /\ UNCHANGED << mainVars, pulseVars >>
    /\ UNCHANGED emuVars

\* What snd_pcm_writei may return: all frames, fewer, -EPIPE, another error.
WriteResults == {"ok", "short", "EPIPE", "EBADFD"}

\* snd_pcm_writei returns. It may also never return: the step is not forced.
ThreadWriteReturns ==
    /\ ppc = "t_write"
    /\ \E r \in WriteResults :
        /\ r = "EPIPE" => underruns < MaxUnderruns
        /\ err' = r
        /\ underruns' = IF r = "EPIPE" THEN underruns + 1 ELSE 0
        /\ pcm' = CASE pcm = "CLOSED" -> "CLOSED"
                    [] r = "EPIPE" -> "XRUN"
                    [] r = "EBADFD" -> pcm
                    [] OTHER -> "RUNNING"
    /\ pop_pre' = << >>
    /\ ppc' = "t_err"
    /\ UNCHANGED << playback_buffer, samples_to_copy, got, backend, calls, period_size,
                    buffer_mutex, c64_buffer, c64_buffer_len, thread_running >>
    /\ UNCHANGED << mainVars, pulseVars >>
    /\ UNCHANGED emuVars

AfterUnderrun_Break == "t_free"
\* The -EPIPE branch ends the loop body: back to the while test.
AfterUnderrun == "t_while"

\* if (err == -EPIPE) ... else if (err < 0) ... else if (err != samples_to_play)
ThreadErr ==
    /\ ppc = "t_err"
    /\ CASE err = "EPIPE" ->
              /\ pcm' = IF pcm = "CLOSED" THEN "CLOSED" ELSE "PREPARED"
              /\ ppc' = AfterUnderrun
         [] err = "EBADFD" ->
              /\ ppc' = "t_free"
              /\ UNCHANGED pcm
         [] OTHER ->
              /\ ppc' = "t_while"
              /\ UNCHANGED pcm
    /\ UNCHANGED << playback_buffer, samples_to_copy, err, underruns, got, pop_pre,
                    backend, calls, period_size, buffer_mutex, c64_buffer, c64_buffer_len,
                    thread_running >>
    /\ UNCHANGED << mainVars, pulseVars >>
    /\ UNCHANGED emuVars

\* free(playback_buffer); return NULL;
ThreadFree ==
    /\ ppc = "t_free"
    /\ playback_buffer' = << >>
    /\ ppc' = "exited"
    /\ UNCHANGED << samples_to_copy, err, underruns, got, pop_pre, backend, calls, period_size >>
    /\ UNCHANGED << mainVars, sharedVars, pulseVars >>
    /\ UNCHANGED emuVars

(***************************************************************************)
(* audio_cleanup (ALSA).                                                   *)
(***************************************************************************)
cleanupFrame == << quit_requested, samples, j, overflow, sent, accepted, push_pre, backend, calls,
                   period_size >>

\* if (state->thread_running) { state->thread_running = 0; ...
CleanupStop ==
    /\ backend = "alsa"
    /\ mpc = "c_check"
    /\ IF thread_running = 1
          THEN thread_running' = 0 /\ mpc' = "c_join"
          ELSE thread_running' = thread_running /\ mpc' = "c_close"
    /\ UNCHANGED << buffer_mutex, c64_buffer, c64_buffer_len, pcm >>
    /\ UNCHANGED << cleanupFrame, threadVars, pulseVars >>
    /\ UNCHANGED emuVars

JoinDone_NoWait == TRUE
\* pthread_join returns once the thread has terminated.
JoinDone == ppc = "exited"

CleanupJoin ==
    /\ mpc = "c_join"
    /\ JoinDone
    /\ mpc' = "c_close"
    /\ UNCHANGED << sharedVars, cleanupFrame, threadVars, pulseVars >>
    /\ UNCHANGED emuVars

\* snd_pcm_drop and snd_pcm_close.
CleanupClose ==
    /\ mpc = "c_close"
    /\ pcm' = "CLOSED"
    /\ mpc' = "c_lock"
    /\ UNCHANGED << buffer_mutex, c64_buffer, c64_buffer_len, thread_running >>
    /\ UNCHANGED << cleanupFrame, threadVars, pulseVars >>
    /\ UNCHANGED emuVars

CleanupLock ==
    /\ mpc = "c_lock"
    /\ MutexFree
    /\ buffer_mutex' = "main"
    /\ mpc' = "c_free"
    /\ UNCHANGED << c64_buffer, c64_buffer_len, thread_running, pcm >>
    /\ UNCHANGED << cleanupFrame, threadVars, pulseVars >>
    /\ UNCHANGED emuVars

\* free(state->c64_buffer); state->c64_buffer = NULL;
CleanupFree ==
    /\ mpc = "c_free"
    /\ c64_buffer' = << >>
    /\ mpc' = "c_unlock"
    /\ UNCHANGED << buffer_mutex, c64_buffer_len, thread_running, pcm >>
    /\ UNCHANGED << cleanupFrame, threadVars, pulseVars >>
    /\ UNCHANGED emuVars

\* The unlock, then the mutex and the state are released and main returns 0.
CleanupUnlock ==
    /\ mpc = "c_unlock"
    /\ buffer_mutex' = "none"
    /\ mpc' = "stopped"
    /\ UNCHANGED << c64_buffer, c64_buffer_len, thread_running, pcm >>
    /\ UNCHANGED << cleanupFrame, threadVars, pulseVars >>
    /\ UNCHANGED emuVars

(***************************************************************************)
(* The PulseAudio backend (audio_linux.c): no queue and no thread of its   *)
(* own; audio_from_emulator hands the samples to pa_simple_write.          *)
(***************************************************************************)
alsaVars == << buffer_mutex, c64_buffer, c64_buffer_len, thread_running, pcm,
               period_size, j, overflow, sent, accepted, push_pre >>

\* audio_init: pa_simple_new connects a stream with the default buffering.
PulseInit ==
    /\ backend = "pulse"
    /\ mpc = "init"
    /\ pa_writable' = PaBufferSize
    /\ mpc' = "while"
    /\ UNCHANGED << quit_requested, samples, pa_left, backend, calls >>
    /\ UNCHANGED << alsaVars, threadVars >>
    /\ UNCHANGED emuVars

\* audio_from_emulator: pa_simple_write is called with all the samples.
PulseCall ==
    /\ backend = "pulse"
    /\ mpc = "exec"
    /\ \E s \in SampleArrays :
        /\ samples' = s
        /\ pa_left' = Len(s)
    /\ mpc' = "pa_write"
    /\ UNCHANGED << quit_requested, pa_writable, backend, calls >>
    /\ UNCHANGED << alsaVars, threadVars >>
    /\ UNCHANGED emuVars

\* pa_simple_write: while data is left, wait until the stream has room, then
\* write what fits; it returns when nothing is left.
PulseWrite ==
    /\ mpc = "pa_write"
    /\ pa_writable > 0
    /\ LET k == Min(pa_left, pa_writable) IN
        /\ pa_left' = pa_left - k
        /\ pa_writable' = pa_writable - k
        /\ mpc' = IF pa_left - k = 0 THEN "exec" ELSE "pa_write"
        /\ samples' = IF pa_left - k = 0 THEN << >> ELSE samples
    /\ UNCHANGED << quit_requested, backend, calls >>
    /\ UNCHANGED << alsaVars, threadVars >>
    /\ UNCHANGED emuVars

\* The sound server plays one sample: room for one more.
PulseServerPlays ==
    /\ backend = "pulse"
    /\ mpc \notin {"init", "stopped"}
    /\ pa_writable < PaBufferSize
    /\ pa_writable' = pa_writable + 1
    /\ UNCHANGED << mpc, quit_requested, samples, pa_left, backend, calls >>
    /\ UNCHANGED << alsaVars, threadVars >>
    /\ UNCHANGED emuVars

\* audio_cleanup: pa_simple_free.
PulseCleanup ==
    /\ backend = "pulse"
    /\ mpc = "c_check"
    /\ mpc' = "stopped"
    /\ UNCHANGED << quit_requested, samples, backend, calls >>
    /\ UNCHANGED << alsaVars, threadVars, pulseVars >>
    /\ UNCHANGED emuVars

(***************************************************************************)
(* The program.                                                            *)
(***************************************************************************)
Next ==
    \/ AudioInit
    \/ MainWhile
    \/ MainEndIteration
    \/ PushCall
    \/ PushLock
    \/ PushCheck
    \/ PushDropUnlock
    \/ PushRealloc
    \/ PushCopy
    \/ PushUnlock
    \/ ThreadStart
    \/ ThreadWhile
    \/ ThreadLock
    \/ ThreadCheck
    \/ ThreadMemcpy
    \/ ThreadMemmove
    \/ ThreadSubLen
    \/ ThreadUnlock
    \/ ThreadWriteReturns
    \/ ThreadErr
    \/ ThreadFree
    \/ CleanupStop
    \/ CleanupJoin
    \/ CleanupClose
    \/ CleanupLock
    \/ CleanupFree
    \/ CleanupUnlock
    \/ PulseInit
    \/ PulseCall
    \/ PulseWrite
    \/ PulseServerPlays
    \/ PulseCleanup

Spec == Init /\ [][Next]_vars

(***************************************************************************)
(* The macOS backend (audio_macos.c): the same queue, filled by            *)
(* audio_from_emulator on the pacing thread and emptied by BufferCallback  *)
(* on the audio queue's own thread, with no lock. Each statement is one    *)
(* step; the two threads' steps interleave freely.                         *)
(***************************************************************************)
\* Number of times the audio queue calls BufferCallback in a run (it calls it
\* without end while the queue plays).
MaxCallbacks == 3

\* (short)(samples[j] * 32367)
MacToShort(a) == TruncDiv(a[1] * 32367, a[2])

\* audio_from_emulator is between its entry and its return.
InMacPush(m) == m \in {"mac_check", "mac_realloc", "mac_store", "mac_inc"}
\* BufferCallback is between its entry and its return.
InCallback(p) == p \in {"cb_test", "cb_clamp", "cb_copy", "cb_move",
                        "cb_sublen", "cb_enqueue", "cb_silence"}

\* The history after a step that leaves the threads at m and p.
Overlap(m, p) == [calls EXCEPT !.overlapped = @ \/ (InMacPush(m) /\ InCallback(p))]

\* What no step of the macOS backend changes.
macFrame == << quit_requested, buffer_mutex, thread_running, pcm, push_pre,
               pop_pre, err, underruns, backend >>

\* audio_init, the path on which every call succeeds: the buffers are
\* primed by three direct calls of BufferCallback on the empty queue, which
\* zero them, and the audio queue is started.
MacInit ==
    /\ backend = "macos"
    /\ mpc = "init"
    /\ \E p \in 1..MaxPeriod :
        /\ period_size' = p
        /\ playback_buffer' = Zeros(p)
    /\ ppc' = "cb_idle"
    /\ mpc' = "exec"
    /\ UNCHANGED << samples, j, c64_buffer, c64_buffer_len, samples_to_copy,
                    overflow, sent, accepted, got, calls >>
    /\ UNCHANGED << macFrame, pulseVars, emuVars >>

\* The emulator calls audio_from_emulator with an array of samples.
MacCall ==
    /\ backend = "macos"
    /\ mpc = "exec"
    /\ \E s \in SampleArrays :
        /\ Len(sent) + Len(s) <= MaxTotal
        /\ samples' = s
        /\ sent' = sent \o s
    /\ j' = 0
    /\ overflow' = FALSE
    /\ mpc' = "mac_check"
    /\ calls' = [Overlap("mac_check", ppc) EXCEPT !.pushes = @ + 1]
    /\ UNCHANGED << ppc, c64_buffer, c64_buffer_len, period_size,
                    playback_buffer, samples_to_copy, accepted, got >>
    /\ UNCHANGED << macFrame, pulseVars, emuVars >>

\* if (state->c64_buffer_len >= MAX_C64_BUFFER_LEN) { printf("!"); return; }
MacCheck ==
    /\ mpc = "mac_check"
    /\ IF QueueFull(c64_buffer_len)
          THEN /\ overflow' = TRUE
               /\ mpc' = "exec"
               /\ samples' = << >>
          ELSE /\ mpc' = "mac_realloc"
               /\ UNCHANGED << overflow, samples >>
    /\ UNCHANGED << ppc, j, c64_buffer, c64_buffer_len, period_size,
                    playback_buffer, samples_to_copy, sent, accepted, got,
                    calls >>
    /\ UNCHANGED << macFrame, pulseVars, emuVars >>

\* state->c64_buffer = realloc(..., c64_buffer_len + num_samples)
MacRealloc ==
    /\ mpc = "mac_realloc"
    /\ c64_buffer' = Realloc(c64_buffer, c64_buffer_len + Len(samples))
    /\ mpc' = "mac_store"
    /\ UNCHANGED << ppc, samples, j, c64_buffer_len, period_size,
                    playback_buffer, samples_to_copy, overflow, sent, accepted,
                    got, calls >>
    /\ UNCHANGED << macFrame, pulseVars, emuVars >>

StoreIndex_First(len) == 1
\* state->c64_buffer[state->c64_buffer_len]: the cell behind the queue.
StoreIndex(len) == len + 1

\* state->c64_buffer[state->c64_buffer_len] = (short)(samples[j]*32367);
MacStore ==
    /\ mpc = "mac_store"
    /\ c64_buffer' = [c64_buffer EXCEPT
                         ![StoreIndex(c64_buffer_len)] = MacToShort(samples[j + 1])]
    /\ mpc' = "mac_inc"
    /\ UNCHANGED << ppc, samples, j, c64_buffer_len, period_size,
                    playback_buffer, samples_to_copy, overflow, sent, accepted,
                    got, calls >>
    /\ UNCHANGED << macFrame, pulseVars, emuVars >>

\* state->c64_buffer_len++; then j++ and the loop test: the next sample, or
\* the return.
MacInc ==
    /\ mpc = "mac_inc"
    /\ c64_buffer_len' = c64_buffer_len + 1
    /\ accepted' = Append(accepted, samples[j + 1])
    /\ IF j + 1 < Len(samples)
          THEN /\ j' = j + 1
               /\ mpc' = "mac_store"
               /\ UNCHANGED samples
          ELSE /\ j' = 0
               /\ mpc' = "exec"
               /\ samples' = << >>
    /\ UNCHANGED << ppc, c64_buffer, period_size, playback_buffer,
                    samples_to_copy, overflow, sent, got, calls >>
    /\ UNCHANGED << macFrame, pulseVars, emuVars >>

\* The audio queue calls BufferCallback with a buffer it has played:
\* numSamples = mAudioDataBytesCapacity / sizeof(short).
CallbackBegin ==
    /\ ppc = "cb_idle"
    /\ calls.pops < MaxCallbacks
    /\ samples_to_copy' = period_size
    /\ ppc' = "cb_test"
    /\ calls' = [Overlap(mpc, "cb_test") EXCEPT !.pops = @ + 1]
    /\ UNCHANGED << mpc, samples, j, c64_buffer, c64_buffer_len, period_size,
                    playback_buffer, overflow, sent, accepted, got >>
    /\ UNCHANGED << macFrame, pulseVars, emuVars >>

\* if (state->c64_buffer_len == 0) { printf("."); zero the buffer } else ...
CallbackTest ==
    /\ ppc = "cb_test"
    /\ IF c64_buffer_len = 0
          THEN /\ playback_buffer' = Zeros(samples_to_copy)
               /\ ppc' = "cb_silence"
          ELSE /\ ppc' = "cb_clamp"
               /\ UNCHANGED playback_buffer
    /\ UNCHANGED << mpc, samples, j, c64_buffer, c64_buffer_len, period_size,
                    samples_to_copy, overflow, sent, accepted, got, calls >>
    /\ UNCHANGED << macFrame, pulseVars, emuVars >>

\* if (numSamples > state->c64_buffer_len) numSamples = state->c64_buffer_len;
CallbackClamp ==
    /\ ppc = "cb_clamp"
    /\ samples_to_copy' = IF samples_to_copy > c64_buffer_len
                             THEN c64_buffer_len ELSE samples_to_copy
    /\ ppc' = "cb_copy"
    /\ UNCHANGED << mpc, samples, j, c64_buffer, c64_buffer_len, period_size,
                    playback_buffer, overflow, sent, accepted, got, calls >>
    /\ UNCHANGED << macFrame, pulseVars, emuVars >>

\* for (i = 0; i < numSamples; i++) samples[i] = state->c64_buffer[i];
CallbackCopy ==
    /\ ppc = "cb_copy"
    /\ playback_buffer' = MemcpyDst(playback_buffer, c64_buffer, samples_to_copy)
    /\ ppc' = "cb_move"
    /\ UNCHANGED << mpc, samples, j, c64_buffer, c64_buffer_len, period_size,
                    samples_to_copy, overflow, sent, accepted, got, calls >>
    /\ UNCHANGED << macFrame, pulseVars, emuVars >>

\* if (numSamples < state->c64_buffer_len) memmove(...)
CallbackMove ==
    /\ ppc = "cb_move"
    /\ c64_buffer' = IF samples_to_copy < c64_buffer_len
                        THEN MemmoveFront(c64_buffer, samples_to_copy,
                                          c64_buffer_len - samples_to_copy)
                        ELSE c64_buffer
    /\ ppc' = "cb_sublen"
    /\ UNCHANGED << mpc, samples, j, c64_buffer_len, period_size,
                    playback_buffer, samples_to_copy, overflow, sent, accepted,
                    got, calls >>
    /\ UNCHANGED << macFrame, pulseVars, emuVars >>

\* state->c64_buffer_len -= numSamples;
CallbackSubLen ==
    /\ ppc = "cb_sublen"
    /\ c64_buffer_len' = c64_buffer_len - samples_to_copy
    /\ ppc' = "cb_enqueue"
    /\ UNCHANGED << mpc, samples, j, c64_buffer, period_size, playback_buffer,
                    samples_to_copy, overflow, sent, accepted, got, calls >>
    /\ UNCHANGED << macFrame, pulseVars, emuVars >>

\* mAudioDataByteSize = numSamples * sizeof(short); AudioQueueEnqueueBuffer:
\* the samples taken from the queue (none on the silence branch) go to the
\* device, and the callback returns.
CallbackEnqueue ==
    /\ ppc \in {"cb_enqueue", "cb_silence"}
    /\ got' = IF ppc = "cb_enqueue"
                 THEN got \o SubSeq(playback_buffer, 1, samples_to_copy)
                 ELSE got
    /\ ppc' = "cb_idle"
    /\ UNCHANGED << mpc, samples, j, c64_buffer, c64_buffer_len, period_size,
                    playback_buffer, samples_to_copy, overflow, sent, accepted,
                    calls >>
    /\ UNCHANGED << macFrame, pulseVars, emuVars >>

InitMac ==
    /\ backend = "macos"
    /\ mpc = "init"
    /\ quit_requested = 0
    /\ AudioOff
    /\ MainOff
    /\ B64Off

NextMac ==
    \/ MacInit
    \/ MacCall
    \/ MacCheck
    \/ MacRealloc
    \/ MacStore
    \/ MacInc
    \/ CallbackBegin
    \/ CallbackTest
    \/ CallbackClamp
    \/ CallbackCopy
    \/ CallbackMove
    \/ CallbackSubLen
    \/ CallbackEnqueue

SpecMac == InitMac /\ [][NextMac]_vars

(***************************************************************************)
(* The ALSA backend where a library call fails: realloc in                 *)
(* audio_from_emulator, and the steps of audio_init.                       *)
(***************************************************************************)
\* state->c64_buffer = realloc(...) returned NULL: the pointer is
\* overwritten with NULL (the old block is neither freed nor reachable), the
\* length is left alone, the message is printed; "p_unlock" unlocks and
\* returns.
PushReallocFails ==
    /\ mpc = "p_realloc"
    /\ c64_buffer' = << >>
    /\ mpc' = "p_unlock"
    /\ UNCHANGED << quit_requested, samples, j, overflow, sent, accepted,
                    push_pre, backend, calls, buffer_mutex, c64_buffer_len,
                    thread_running, pcm, period_size >>
    /\ UNCHANGED threadVars
    /\ UNCHANGED pulseVars
    /\ UNCHANGED emuVars

\* memcpy(playback_buffer, NULL, samples_to_copy * sizeof(short)) with
\* samples_to_copy > 0 reads address 0: the process is killed by SIGSEGV,
\* the mutex still held.
ThreadMemcpyNull ==
    /\ ppc = "t_memcpy"
    /\ c64_buffer = << >>
    /\ ppc' = "crashed"
    /\ mpc' = "crashed"
    /\ UNCHANGED << quit_requested, samples, j, overflow, sent, accepted,
                    push_pre, backend, calls, buffer_mutex, c64_buffer, c64_buffer_len,
                    thread_running, pcm, period_size >>
    /\ UNCHANGED << playback_buffer, samples_to_copy, err, underruns, got,
                    pop_pre >>
    /\ UNCHANGED pulseVars
    /\ UNCHANGED emuVars

\* The steps of audio_init that can fail before the thread is started.
InitStages == {"malloc", "snd_pcm_open", "hw_params", "snd_pcm_prepare"}

\* audio_init fails before line 277. Without a state (malloc or
\* pthread_mutex_init failed) it returns NULL at once; otherwise it calls
\* audio_cleanup on the zeroed state, with the device open or not, and
\* returns NULL after it.
AudioInitFails ==
    /\ backend = "alsa"
    /\ mpc = "init"
    /\ \E stage \in InitStages :
        /\ pcm' = IF stage \in {"hw_params", "snd_pcm_prepare"}
                     THEN "OPEN" ELSE "CLOSED"
        /\ IF stage = "snd_pcm_prepare"
              THEN \E p \in 1..MaxPeriod : period_size' = p
              ELSE period_size' = period_size
        /\ mpc' = IF stage = "malloc" THEN "stopped" ELSE "c_check"
    /\ UNCHANGED << quit_requested, samples, j, buffer_mutex, c64_buffer,
                    c64_buffer_len, thread_running, playback_buffer,
                    samples_to_copy, err, underruns, overflow, sent, accepted,
                    got, push_pre, pop_pre, backend, calls, ppc >>
    /\ UNCHANGED pulseVars
    /\ UNCHANGED emuVars

\* state->thread_running = 1; pthread_create fails: no thread exists, the
\* flag stays 1, and audio_cleanup is called.
AudioInitThreadFails ==
    /\ backend = "alsa"
    /\ mpc = "init"
    /\ \E p \in 1..MaxPeriod : period_size' = p
    /\ pcm' = "PREPARED"
    /\ thread_running' = 1
    /\ mpc' = "c_check"
    /\ UNCHANGED << quit_requested, samples, j, buffer_mutex, c64_buffer,
                    c64_buffer_len, playback_buffer, samples_to_copy, err,
                    underruns, overflow, sent, accepted, got, push_pre, pop_pre,
                    backend, calls, ppc >>
    /\ UNCHANGED pulseVars
    /\ UNCHANGED emuVars

\* What pthread_join does with the handle of a thread that was never
\* created (zeroed by the memset, or whatever the failed pthread_create
\* left in it): it returns an error, or it dereferences the handle and the
\* process is killed. It may also never return: the step is not forced.
InvalidJoinOutcomes == {"returns", "crashes"}

CleanupJoinInvalid ==
    /\ mpc = "c_join"
    /\ ppc = "none"
    /\ \E outcome \in InvalidJoinOutcomes :
        mpc' = IF outcome = "returns" THEN "c_close" ELSE "crashed"
    /\ UNCHANGED << sharedVars, cleanupFrame, threadVars, pulseVars >>
    /\ UNCHANGED emuVars

NextAudioFaults ==
    \/ Next
    \/ PushReallocFails
    \/ ThreadMemcpyNull
    \/ AudioInitFails
    \/ AudioInitThreadFails
    \/ CleanupJoinInvalid

SpecAudioFaults == Init /\ [][NextAudioFaults]_vars

\* The steps of the playback thread and of audio_cleanup.
ThreadNext ==
    \/ ThreadStart
    \/ ThreadWhile
    \/ ThreadLock
    \/ ThreadCheck
    \/ ThreadMemcpy
    \/ ThreadMemmove
    \/ ThreadSubLen
    \/ ThreadUnlock
    \/ ThreadWriteReturns
    \/ ThreadErr
    \/ ThreadFree

CleanupNext ==
    \/ CleanupStop
    \/ CleanupJoin
    \/ CleanupClose
    \/ CleanupLock
    \/ CleanupFree
    \/ CleanupUnlock

\* The scheduler runs a thread that can take a step, every device write
\* returns, and audio_cleanup, once called, is not suspended for ever.
SpecLive == Spec /\ WF_vars(ThreadNext) /\ WF_vars(CleanupNext)

(***************************************************************************)
(* The encoder: base64_encode.                                             *)
(***************************************************************************)
\* const char base64_table[]
base64_table ==
    << "A", "B", "C", "D", "E", "F", "G", "H", "I", "J", "K", "L", "M",
       "N", "O", "P", "Q", "R", "S", "T", "U", "V", "W", "X", "Y", "Z",
       "a", "b", "c", "d", "e", "f", "g", "h", "i", "j", "k", "l", "m",
       "n", "o", "p", "q", "r", "s", "t", "u", "v", "w", "x", "y", "z",
       "0", "1", "2", "3", "4", "5", "6", "7", "8", "9", "+", "/" >>

\* x >> n
ShiftRight(x, n) == x \div (2 ^ n)

Sextet_NoShift(triple, n) == base64_table[(triple % 64) + 1]
\* base64_table[(triple >> n) & 0x3F]
Sextet(triple, n) == base64_table[(ShiftRight(triple, n) % 64) + 1]

\* (i+1 < input_length), (i+2 < input_length): data[k] is inside the input
InRange(k, input_length) == k < input_length

ThirdChar_NoPad(d, i, triple) == Sextet(triple, 6)
\* (i+1 < input_length) ? base64_table[(triple >> 6) & 0x3F] : '='
ThirdChar(d, i, triple) ==
    IF InRange(i + 1, Len(d)) THEN Sextet(triple, 6) ELSE "="

\* (i+2 < input_length) ? base64_table[triple & 0x3F] : '='
FourthChar(d, i, triple) ==
    IF InRange(i + 2, Len(d)) THEN Sextet(triple, 0) ELSE "="

\* The for loop of base64_encode from index i on, out being encoded_data[0..j-1].
\* The triple is below 2^24, so the uint32_t sum never wraps.
RECURSIVE base64_loop(_, _, _)
base64_loop(d, i, out) ==
    IF i < Len(d)
       THEN LET octet_a == d[i + 1]
                octet_b == IF InRange(i + 1, Len(d)) THEN d[i + 2] ELSE 0
                octet_c == IF InRange(i + 2, Len(d)) THEN d[i + 3] ELSE 0
                triple == octet_a * 65536 + octet_b * 256 + octet_c
            IN base64_loop(d, i + 3, out \o
                   << Sextet(triple, 18),
                      Sextet(triple, 12),
                      ThirdChar(d, i, triple),
                      FourthChar(d, i, triple) >>)
       ELSE out

\* base64_encode(data, input_length, encoded_data): the characters written;
\* the value returned is their number.
base64_encode(d) == base64_loop(d, 0, << >>)

\* Byte values of the inputs: all bits clear, all bits set, and two between.
ByteValues == {0, 77, 97, 255}

RECURSIVE ByteSeqs(_)
ByteSeqs(n) ==
    IF n = 0 THEN { << >> }
    ELSE LET shorter == ByteSeqs(n - 1)
         IN shorter \cup { Append(q, b) : q \in { x \in shorter : Len(x) = n - 1 },
                                           b \in ByteValues }

\* A caller hands base64_encode a byte sequence and a buffer large enough.
Base64Call ==
    /\ mpc = "b64"
    /\ b64_ret = -1
    /\ encoded_data' = base64_encode(data)
    /\ b64_ret' = Len(base64_encode(data))
    /\ mpc' = "b64_done"
    /\ UNCHANGED << backend, calls, quit_requested, samples, j, buffer_mutex, c64_buffer,
                    c64_buffer_len, thread_running, pcm, period_size, overflow,
                    sent, accepted, push_pre, data >>
    /\ UNCHANGED << threadVars, pulseVars, configVars, paceVars >>
    /\ UNCHANGED << width, height, kitty_id, fb, frame, frame_number,
                    encoded_offset, stdout_buf, terminal, stderr_log, create_sent >>

InitB64 ==
    /\ backend = "alsa"
    /\ mpc = "b64"
    /\ quit_requested = 0
    /\ AudioOff
    /\ MainOff
    /\ data \in ByteSeqs(MaxInputLen)
    /\ b64_ret = -1

NextB64 ==
    \/ Base64Call

SpecB64 == InitB64 /\ [][NextB64]_vars

(***************************************************************************)
(* The frame emitter: kitty_update_display.                                *)
(*                                                                         *)
(* stdout is a buffered stream: printf and fwrite append to stdout_buf,    *)
(* fflush hands stdout_buf to the terminal. What the stream does on its    *)
(* own when its buffer fills is not counted on.                            *)
(***************************************************************************)
\* size_t bitmap_size = width * height * 3
bitmap_size == width * height * 3

\* size_t encoded_size = 4 * ((bitmap_size + 2) / 3)
encoded_size == 4 * ((bitmap_size + 2) \div 3)

\* The keys of an escape sequence's control data, -1 or "" when absent.
NoKeys == [a |-> "", i |-> -1, f |-> -1, s |-> -1, v |-> -1, q |-> -1,
           c |-> -1, r |-> -1, x |-> -1, y |-> -1, m |-> -1]

\* "\033_G" keys ";" payload "\033\\" written during the call for frame n.
Escape(keys, payload, n) == [esc |-> TRUE, keys |-> keys, payload |-> payload, of |-> n]

\* Plain text written during the call for frame n.
Text(chars, n) == [esc |-> FALSE, keys |-> NoKeys, payload |-> chars, of |-> n]

more_chunks_Inclusive == IF encoded_offset + chunk_size <= encoded_size THEN 1 ELSE 0
\* int more_chunks = (encoded_offset + chunk_size) < encoded_size
more_chunks == IF encoded_offset + chunk_size < encoded_size THEN 1 ELSE 0

\* size_t this_size = more_chunks ? 4096 : encoded_size - encoded_offset
this_size == IF more_chunks = 1 THEN chunk_size ELSE encoded_size - encoded_offset

FirstAction_AlwaysCreate(n) == "T"
\* frame_number == 0 ? 'T' : 't'
FirstAction(n) == IF n = 0 THEN "T" ELSE "t"

\* The control data the if/else ladder prints before the payload of a chunk.
ChunkKeys ==
    IF encoded_offset = 0
       THEN IF ghostty_mode = 1
               THEN [NoKeys EXCEPT !.a = FirstAction(frame_number), !.i = kitty_id,
                                   !.f = 24, !.s = width, !.v = height, !.q = 2,
                                   !.c = 30, !.r = 10, !.m = more_chunks]
               ELSE IF frame_number = 0
                       THEN [NoKeys EXCEPT !.a = "T", !.i = kitty_id, !.f = 24,
                                           !.s = width, !.v = height, !.q = 2,
                                           !.c = 30, !.r = 10, !.m = more_chunks]
                       ELSE [NoKeys EXCEPT !.a = "f", !.r = 1, !.i = kitty_id,
                                           !.f = 24, !.x = 0, !.y = 0, !.s = width,
                                           !.v = height, !.m = more_chunks]
       ELSE IF ghostty_mode = 1
               THEN [NoKeys EXCEPT !.m = more_chunks]
               ELSE IF frame_number = 0
                       THEN [NoKeys EXCEPT !.m = more_chunks]
                       ELSE [NoKeys EXCEPT !.a = "f", !.r = 1, !.m = more_chunks]

\* printf("\033_Ga=a,c=1,i=%lu;", kitty_id); printf("\033\\");
AnimateRecord == Escape([NoKeys EXCEPT !.a = "a", !.c = 1, !.i = kitty_id], << >>,
                        frame_number)

AnimateWanted_AlsoFirstFrame == kitty_mode = 1
\* if (EmuConfig.kitty_mode && frame_number > 0)
AnimateWanted == kitty_mode = 1 /\ frame_number > 0

\* The call kitty_update_display(kitty_id, frame++, width, height, fb) up to
\* the while loop: malloc gave the buffer, base64_encode filled it.
KittyUpdateBegin ==
    /\ mpc = "m_display"
    /\ frame_number' = frame
    /\ frame' = frame + 1
    /\ encoded_data' = base64_encode(fb)
    /\ encoded_offset' = 0
    /\ terminal' = << >>
    /\ mpc' = "k_while"
    /\ UNCHANGED << width, height, kitty_id, fb, stdout_buf, stderr_log, create_sent >>
    /\ UNCHANGED << quit_requested, thread_running, pcm >>
    /\ UNCHANGED << audioRest, b64Vars, configVars, paceVars >>

KittyUpdateNoMemory_HeaderFirst ==
    /\ mpc = "m_display"
    /\ frame_number' = frame
    /\ frame' = frame + 1
    /\ terminal' = << >>
    /\ stdout_buf' = Append(stdout_buf, Escape(NoKeys, << >>, frame))
    /\ stderr_log' = Append(stderr_log, "Memory allocation failed")
    /\ mpc' = "m_pace"
    /\ UNCHANGED << width, height, kitty_id, fb, encoded_data, encoded_offset,
                    create_sent >>
    /\ UNCHANGED << quit_requested, thread_running, pcm >>
    /\ UNCHANGED << audioRest, b64Vars, configVars, paceVars >>

\* The same call when malloc returns NULL: the message, and return.
KittyUpdateNoMemory ==
    /\ mpc = "m_display"
    /\ frame_number' = frame
    /\ frame' = frame + 1
    /\ terminal' = << >>
    /\ stderr_log' = Append(stderr_log, "Memory allocation failed")
    /\ mpc' = "m_pace"
    /\ UNCHANGED << width, height, kitty_id, fb, encoded_data, encoded_offset,
                    stdout_buf, create_sent >>
    /\ UNCHANGED << quit_requested, thread_running, pcm >>
    /\ UNCHANGED << audioRest, b64Vars, configVars, paceVars >>

\* One turn of the while loop: the control data, the payload, the
\* terminator, fflush(stdout), and the offset moved on.
KittyChunk ==
    /\ mpc = "k_while"
    /\ encoded_offset < encoded_size
    /\ LET payload == SubSeq(encoded_data, encoded_offset + 1,
                             encoded_offset + this_size)
       IN terminal' = terminal \o stdout_buf \o
                         << Escape(ChunkKeys, payload, frame_number) >>
    /\ stdout_buf' = << >>
    /\ encoded_offset' = encoded_offset + this_size
    /\ create_sent' = (create_sent \/ ChunkKeys.a = "T")
    /\ UNCHANGED << mpc, width, height, kitty_id, fb, frame, frame_number,
                    encoded_data, stderr_log >>
    /\ UNCHANGED << quit_requested, thread_running, pcm >>
    /\ UNCHANGED << audioRest, b64Vars, configVars, paceVars >>

\* After the loop: the animate record if wanted, the newline and its flush
\* for frame 0, free(encoded_data), and the return.
KittyReturn ==
    /\ mpc = "k_while"
    /\ ~(encoded_offset < encoded_size)
    /\ LET written == IF AnimateWanted THEN Append(stdout_buf, AnimateRecord)
                                       ELSE stdout_buf
       IN IF frame_number = 0
             THEN /\ terminal' = terminal \o written \o
                                    << Text(<< "\r", "\n" >>, frame_number) >>
                  /\ stdout_buf' = << >>
             ELSE /\ stdout_buf' = written
                  /\ UNCHANGED terminal
    /\ encoded_data' = << >>
    /\ mpc' = "m_pace"
    /\ UNCHANGED << width, height, kitty_id, fb, frame, frame_number,
                    encoded_offset, stderr_log, create_sent >>
    /\ UNCHANGED << quit_requested, thread_running, pcm >>
    /\ UNCHANGED << audioRest, b64Vars, configVars, paceVars >>

(***************************************************************************)
(* The main program: startup, the pacing loop, the cleanup.                *)
(*                                                                         *)
(* The audio driver is opened and closed as a whole here; the steps of     *)
(* audio_init, audio_from_emulator and audio_cleanup are those of Spec.    *)
(***************************************************************************)
\* Screen sizes in pixels, <<width, height>>: their encodings are shorter
\* than a chunk, a whole chunk, a chunk and a half, and two chunks.
ScreenSizes == { << 1, 1 >>, << 2, 1 >>, << 3, 1 >>, << 2, 2 >> }

\* Values rand() gives for the image id.
KittyIds == { 7, 11 }

\* The wall clock when the loop starts.
ClockAtStart == 5

\* Colours crt_set_pixel is given, as <<r, g, b>>.
Palette == << << 0, 0, 0 >>, << 77, 97, 255 >>, << 255, 0, 77 >> >>

\* The framebuffer after the emulator drew picture p: pixel k holds colour
\* p + k of the palette, as the three bytes crt_set_pixel stores.
Picture(p, pixels) ==
    [k \in 1..(pixels * 3) |->
        Palette[((p + (k - 1) \div 3) % Len(Palette)) + 1][((k - 1) % 3) + 1]]

\* Bytes that wait on the terminal when process_keyboard looks: nothing,
\* ESC alone, a letter, an arrow key.
KeyboardInputs == { << >>, << 27 >>, << 97 >>, << 27, 91, 65 >> }

\* process_keyboard: 1 if the user asked to stop, 0 for anything else.
process_keyboard(ch) ==
    IF Len(ch) = 0 THEN 0
    ELSE IF ch[1] = 27 /\ Len(ch) = 1 THEN 1
    ELSE 0

\* a - b on uint64_t
U64Sub(a, b) == (a - b) % UINT64_RANGE

\* The conversion of a uint64_t to int64_t.
ToInt64(u) == IF u >= UINT64_RANGE \div 2 THEN u - UINT64_RANGE ELSE u

\* main up to the loop: audio_init, kitty_init, enable_raw_mode, and the
\* locals of the loop.
MainStartup ==
    /\ mpc = "m_start"
    /\ pcm' = "PREPARED"
    /\ thread_running' = 1
    /\ \E id \in KittyIds : kitty_id' = id
    /\ fb' = [k \in 1..bitmap_size |-> 0]
    /\ raw_mode' = TRUE
    /\ frame' = 0
    /\ total_us_emulated' = 0
    /\ total_us_start' = now
    /\ quit_requested' = 0
    /\ mpc' = "m_while"
    /\ UNCHANGED << width, height, frame_number, encoded_data, encoded_offset,
                    stdout_buf, terminal, stderr_log, create_sent >>
    /\ UNCHANGED << now, delta_us, to_sleep_us, exit_code, execs, max_elapsed,
                    prg_loads >>
    /\ UNCHANGED << audioRest, b64Vars, configVars >>

LoopContinues_Always == TRUE
\* !quit_requested
LoopContinues == quit_requested = 0

\* while (!quit_requested)
MainLoopTest ==
    /\ mpc = "m_while"
    /\ LoopContinues => frame < MaxFrames
    /\ mpc' = IF LoopContinues THEN "m_exec" ELSE "m_cleanup"
    /\ UNCHANGED << quit_requested, thread_running, pcm >>
    /\ UNCHANGED << audioRest, emuVars >>

\* c64_exec(&c64, FRAME_USEC); total_us_emulated += FRAME_USEC;
MainExec ==
    /\ mpc = "m_exec"
    /\ \E p \in 0..1 : fb' = Picture(p, width * height)
    /\ execs' = execs + 1
    /\ total_us_emulated' = (total_us_emulated + FRAME_USEC) % UINT64_RANGE
    /\ mpc' = "m_keyboard"
    /\ UNCHANGED << width, height, kitty_id, frame, frame_number, encoded_data,
                    encoded_offset, stdout_buf, terminal, stderr_log, create_sent >>
    /\ UNCHANGED << total_us_start, now, delta_us, to_sleep_us, raw_mode,
                    exit_code, max_elapsed, prg_loads >>
    /\ UNCHANGED << quit_requested, thread_running, pcm >>
    /\ UNCHANGED << audioRest, b64Vars, configVars >>

\* quit_requested = process_keyboard(&c64);
MainKeyboard ==
    /\ mpc = "m_keyboard"
    /\ \E ch \in KeyboardInputs : quit_requested' = process_keyboard(ch)
    /\ mpc' = "m_display"
    /\ UNCHANGED << thread_running, pcm >>
    /\ UNCHANGED << audioRest, emuVars >>

\* time_us() - total_us_start
Elapsed(t) == U64Sub(t, total_us_start)

SleepTime_TwoQuanta(delta) == 2 * FRAME_USEC + delta
SleepTime_Fixed(delta) == FRAME_USEC
\* int64_t to_sleep_us = FRAME_USEC + delta_us
SleepTime(delta) == FRAME_USEC + delta

\* The pacing step. The work of the iteration (step, input poll, frame
\* emit, and whatever ran since the last sleep ended) took w microseconds
\* of real time; usleep returns when the time asked for has passed.
MainPace ==
    /\ mpc = "m_pace"
    /\ \E w \in 0..MaxWork :
         LET total_us_real == Elapsed(now + w)
             delta == ToInt64(U64Sub(total_us_emulated, total_us_real))
             to_sleep == SleepTime(delta)
         IN /\ delta_us' = delta
            /\ to_sleep_us' = to_sleep
            /\ now' = IF to_sleep > 0 THEN now + w + to_sleep ELSE now + w
            /\ max_elapsed' = IF w > max_elapsed THEN w ELSE max_elapsed
    /\ mpc' = "m_load"
    /\ UNCHANGED << total_us_emulated, total_us_start, raw_mode, exit_code,
                    execs, prg_loads >>
    /\ UNCHANGED << quit_requested, thread_running, pcm >>
    /\ UNCHANGED << audioRest, b64Vars, configVars, displayVars >>

\* frame == 90 && EmuConfig.prg_filename
LoadDue == frame = PRG_LOAD_FRAME /\ prg_filename # "NULL"

\* What load_prg_file returns: 1 (loaded), or 0 after a message on stderr
\* (the file cannot be opened or measured, malloc fails, c64_quickload
\* refuses the image).
LoadResults == { 1, 0 }

\* if (frame == 90 && EmuConfig.prg_filename) load_prg_file(...), the call
\* returning; its value is not looked at.
MainLoadPrg ==
    /\ mpc = "m_load"
    /\ IF LoadDue
          THEN /\ prg_loads' = prg_loads + 1
               /\ \E success \in LoadResults :
                     stderr_log' = IF success = 1 THEN stderr_log
                                   ELSE Append(stderr_log, "PRG file not loaded")
          ELSE UNCHANGED << prg_loads, stderr_log >>
    /\ mpc' = "m_while"
    /\ UNCHANGED << total_us_emulated, total_us_start, now, delta_us,
                    to_sleep_us, raw_mode, exit_code, execs, max_elapsed >>
    /\ UNCHANGED << width, height, kitty_id, fb, frame, frame_number, encoded_data,
                    encoded_offset, stdout_buf, terminal, create_sent >>
    /\ UNCHANGED << quit_requested, thread_running, pcm >>
    /\ UNCHANGED << audioRest, b64Vars, configVars >>

\* The same call when fread gives fewer bytes than ftell announced (a read
\* error, a directory, a file that shrank): assert(bytes_read == file_size)
\* fails and abort() ends the process, with no atexit handler run.
MainLoadPrgAborts ==
    /\ mpc = "m_load"
    /\ LoadDue
    /\ prg_loads' = prg_loads + 1
    /\ stderr_log' = Append(stderr_log, "Assertion failed")
    /\ exit_code' = 134
    /\ mpc' = "m_aborted"
    /\ UNCHANGED << total_us_emulated, total_us_start, now, delta_us,
                    to_sleep_us, raw_mode, execs, max_elapsed >>
    /\ UNCHANGED << width, height, kitty_id, fb, frame, frame_number, encoded_data,
                    encoded_offset, stdout_buf, terminal, create_sent >>
    /\ UNCHANGED << quit_requested, thread_running, pcm >>
    /\ UNCHANGED << audioRest, b64Vars, configVars >>

\* After the loop: audio_cleanup, free(fb), disable_raw_mode, the last
\* message, return 0 (which flushes stdout).
MainCleanup ==
    /\ mpc = "m_cleanup"
    /\ thread_running' = 0
    /\ pcm' = "CLOSED"
    /\ fb' = << >>
    /\ raw_mode' = FALSE
    /\ terminal' = terminal \o stdout_buf \o
                      << Text(<< "C64 Emulator terminated." >>, frame) >>
    /\ stdout_buf' = << >>
    /\ exit_code' = 0
    /\ mpc' = "m_exited"
    /\ UNCHANGED << width, height, kitty_id, frame, frame_number, encoded_data,
                    encoded_offset, stderr_log, create_sent >>
    /\ UNCHANGED << total_us_emulated, total_us_start, now, delta_us,
                    to_sleep_us, execs, max_elapsed, prg_loads >>
    /\ UNCHANGED << quit_requested >>
    /\ UNCHANGED << audioRest, b64Vars, configVars >>

\* The state parse_config leaves: one personality, a PRG file or none.
InitMain ==
    /\ backend = "alsa"
    /\ mpc = "m_start"
    /\ quit_requested = 0
    /\ AudioOff
    /\ B64Off
    /\ encoded_data = << >>
    /\ \E personality \in { << 1, 0 >>, << 0, 1 >> } :
          /\ ghostty_mode = personality[1]
          /\ kitty_mode = personality[2]
    /\ prg_filename \in { "NULL", "game.prg" }
    /\ \E size \in ScreenSizes :
          /\ width = size[1]
          /\ height = size[2]
    /\ kitty_id = 0
    /\ fb = << >>
    /\ frame = 0
    /\ frame_number = 0
    /\ encoded_offset = 0
    /\ stdout_buf = << >>
    /\ terminal = << >>
    /\ stderr_log = << >>
    /\ create_sent = FALSE
    /\ total_us_emulated = 0
    /\ total_us_start = 0
    /\ now = ClockAtStart
    /\ delta_us = 0
    /\ to_sleep_us = 0
    /\ raw_mode = FALSE
    /\ exit_code = -1
    /\ execs = 0
    /\ max_elapsed = 0
    /\ prg_loads = 0

NextMain ==
    \/ MainStartup
    \/ MainLoopTest
    \/ MainExec
    \/ MainKeyboard
    \/ KittyUpdateBegin
    \/ KittyChunk
    \/ KittyReturn
    \/ MainPace
    \/ MainLoadPrg
    \/ MainCleanup

SpecMain == InitMain /\ [][NextMain]_vars

\* The main thread is a sequential program each of whose steps returns: it
\* always takes its next step.
SpecMainLive == InitMain /\ [][NextMain]_vars /\ WF_vars(NextMain)

\* The main program when malloc may fail in kitty_update_display.
NextMainNoMemory ==
    \/ MainStartup
    \/ MainLoopTest
    \/ MainExec
    \/ MainKeyboard
    \/ KittyUpdateBegin
    \/ KittyUpdateNoMemory
    \/ KittyChunk
    \/ KittyReturn
    \/ MainPace
    \/ MainLoadPrg
    \/ MainCleanup

SpecMainNoMemory == InitMain /\ [][NextMainNoMemory]_vars

\* The main program when the read of the PRG file may fall short.
NextMainReadFault ==
    \/ MainStartup
    \/ MainLoopTest
    \/ MainExec
    \/ MainKeyboard
    \/ KittyUpdateBegin
    \/ KittyChunk
    \/ KittyReturn
    \/ MainPace
    \/ MainLoadPrg
    \/ MainLoadPrgAborts
    \/ MainCleanup

SpecMainReadFault == InitMain /\ [][NextMainReadFault]_vars

(***************************************************************************)
(* Where the threads are.                                                  *)
(***************************************************************************)
\* audio_from_emulator between its lock and its unlock.
PushCS == {"p_check", "p_drop", "p_realloc", "p_copy", "p_unlock"}
\* audio_cleanup between its lock and its unlock.
CleanupCS == {"c_free", "c_unlock"}
\* playback_thread_func between its lock and its unlock.
PopCS == {"t_check", "t_memcpy", "t_memmove", "t_sublen", "t_unlock"}
\* audio_from_emulator from its call to its return.
InPush == mpc \in {"p_lock"} \cup PushCS
\* audio_from_emulator took the lock with the queue at or above capacity.
InFullPush == mpc \in PushCS /\ push_pre[2] >= MAX_C64_BUFFER_LEN
\* audio_cleanup has freed the block: the queue is no more.
QueueReleased == mpc \in {"c_unlock", "stopped"}
\* audio_cleanup past its pthread_join.
AfterJoin == {"c_close", "c_lock", "c_free", "c_unlock", "stopped"}
\* The playback thread left its loop on a write error other than -EPIPE.
FatalStop == ppc \in {"t_free", "exited"} /\ err = "EBADFD"

\* The push is stopped where only the device can let it pass: at the lock
\* while its owner is inside snd_pcm_writei (ALSA), or inside pa_simple_write
\* with samples left and no room in the stream (PulseAudio).
PushWaitsOnDevice ==
    \/ /\ backend = "alsa"
       /\ mpc = "p_lock"
       /\ buffer_mutex = "playback"
       /\ ppc = "t_write"
    \/ /\ backend = "pulse"
       /\ mpc = "pa_write"
       /\ pa_left > 0
       /\ pa_writable = 0

(***************************************************************************)
(* C1. The queue length never exceeds the capacity: whenever a push is     *)
(* about to unlock after copying, the length is the smaller of the         *)
(* capacity and the length before plus the samples of the call.            *)
(***************************************************************************)
C1_LengthNeverExceedsCapacity ==
    /\ c64_buffer_len <= MAX_C64_BUFFER_LEN
    /\ mpc = "p_unlock" =>
          c64_buffer_len = Min(push_pre[2] + Len(samples), MAX_C64_BUFFER_LEN)

(***************************************************************************)
(* C2. A push that finds the queue at or above capacity when it takes the  *)
(* lock is a no-op: on every step until it has returned the block and the  *)
(* length are those it found, no sample is copied, the only path taken is  *)
(* the one that prints the overflow indicator, and the call returns.       *)
(***************************************************************************)
C2_PushOnFullQueueIsNoOp ==
    [][ InFullPush =>
          /\ c64_buffer' = push_pre[1]
          /\ c64_buffer_len' = push_pre[2]
          /\ j' = 0
          /\ mpc' \in {"p_check", "p_drop", "exec"}
          /\ mpc' # "p_check" => overflow' ]_vars

\* A call of the largest size found a non-empty queue at capacity, printed
\* the indicator and is about to unlock and return, the queue as it was.
C2_Witness ==
    /\ mpc = "p_drop"
    /\ Len(samples) = MaxSamples
    /\ push_pre[2] >= MAX_C64_BUFFER_LEN
    /\ push_pre[2] > 0
    /\ overflow
    /\ Queue = SubSeq(push_pre[1], 1, push_pre[2])

C4_PopTakesOldest ==
    ppc = "t_unlock" =>
        LET L == Len(pop_pre)
            k == IF period_size < L THEN period_size ELSE L
        IN  /\ samples_to_copy = k
            /\ SubSeq(playback_buffer, 1, samples_to_copy) = SubSeq(pop_pre, 1, k)
            /\ c64_buffer_len = L - k
            /\ Queue = SubSeq(pop_pre, k + 1, L)

\* A pop of one sample from a queue of two different samples.
C4_Witness ==
    /\ ppc = "t_unlock"
    /\ period_size = 1
    /\ Len(pop_pre) = 2
    /\ pop_pre[1] # pop_pre[2]
    /\ Queue = << pop_pre[2] >>

(***************************************************************************)
(* C5. Mutual exclusion: the producer and the consumer are never in their  *)
(* critical sections together; whoever is in one holds buffer_mutex; and   *)
(* the pacing thread holds it nowhere else, so push releases it on every   *)
(* exit path.                                                              *)
(***************************************************************************)
C5_MutualExclusion ==
    /\ ~(mpc \in PushCS /\ ppc \in PopCS)
    /\ mpc \in PushCS => buffer_mutex = "main"
    /\ ppc \in PopCS => buffer_mutex = "playback"
    /\ mpc \notin (PushCS \cup CleanupCS) => buffer_mutex # "main"
    /\ ppc \notin PopCS => buffer_mutex # "playback"

\* The producer copies a sample while the consumer waits for the lock with
\* samples already in the queue.
C5_Witness ==
    /\ mpc = "p_copy"
    /\ j = 1
    /\ ppc = "t_lock"
    /\ push_pre[2] > 0

(***************************************************************************)
(* C6. A push never waits on the audio device, in any backend: it is never *)
(* stopped at a point that only a device write returning, or the device    *)
(* playing, can let it pass.                                               *)
(***************************************************************************)
C6_PushNeverWaitsOnDevice == ~PushWaitsOnDevice

(***************************************************************************)
(* C7. The period handed to snd_pcm_writei has period_size samples: the    *)
(* k = min(period_size, queue length at the pop) oldest samples in order,  *)
(* then zeros; an empty queue gives all zeros and stays as it was.         *)
(***************************************************************************)
C7_PeriodIsSamplesThenSilence ==
    ppc \in {"t_unlock", "t_write"} =>
        LET L == Len(pop_pre)
            k == IF period_size < L THEN period_size ELSE L
        IN  /\ samples_to_play = period_size
            /\ Len(playback_buffer) = period_size
            /\ \A i \in 1..period_size :
                  playback_buffer[i] = IF i <= k THEN pop_pre[i] ELSE 0
            /\ (L = 0 /\ ppc = "t_unlock") => c64_buffer_len = 0

\* A period of two is being written with one sample and one zero.
C7_Witness ==
    /\ ppc = "t_write"
    /\ period_size = 2
    /\ Len(pop_pre) = 1
    /\ playback_buffer = << pop_pre[1], 0 >>

(***************************************************************************)
(* C8. An underrun does not stop the playback thread: the step that        *)
(* handles -EPIPE prepares the device and goes back to the while test,     *)
(* touching nothing the pacing loop reads; and the thread only ever leaves *)
(* its loop on another error or on the stop flag.                          *)
(***************************************************************************)
C8_UnderrunRecovered ==
    /\ [](ppc \in {"t_free", "exited"} => (err = "EBADFD" \/ thread_running = 0))
    /\ [][ (ppc = "t_err" /\ err = "EPIPE" /\ ppc' # ppc) =>
              /\ ppc' = "t_while"
              /\ pcm' = "PREPARED"
              /\ UNCHANGED << thread_running, mpc, quit_requested, c64_buffer,
                              c64_buffer_len, buffer_mutex >> ]_vars

\* After as many consecutive underruns as are counted, the thread is in a
\* new iteration, the device prepared.
C8_Witness ==
    /\ underruns = MaxUnderruns
    /\ MaxUnderruns >= 2
    /\ err = "EPIPE"
    /\ ppc = "t_lock"
    /\ thread_running = 1
    /\ pcm = "PREPARED"

(***************************************************************************)
(* C9. A device write error other than an underrun stops the playback      *)
(* thread and is surfaced to the owner: once the thread has stopped on     *)
(* such an error, the pacing loop does not enter another iteration.        *)
(***************************************************************************)
C9_FatalErrorSurfaced ==
    /\ []((err = "EBADFD" /\ ppc # "t_err") => FatalStop)
    /\ [][ (FatalStop /\ mpc = "while") => mpc' # "exec" ]_vars

(***************************************************************************)
(* C10. audio_cleanup: stop flag, join, device, queue, in this order. The  *)
(* flag is cleared before the join; the device is closed only once the     *)
(* thread has terminated, so no device write is in progress on a closed    *)
(* device; the block is freed after the device is closed; buffer_mutex is  *)
(* not held by the pacing thread while it waits in the join.               *)
(***************************************************************************)
C10_CleanupOrder ==
    backend = "alsa" =>
        /\ mpc \in ({"c_join"} \cup AfterJoin) => thread_running = 0
        /\ mpc \in AfterJoin => ppc = "exited"
        /\ (pcm = "CLOSED" /\ mpc # "init") => ppc = "exited"
        /\ ~(ppc = "t_write" /\ pcm = "CLOSED")
        /\ mpc \in {"c_free", "c_unlock", "stopped"} => pcm = "CLOSED"
        /\ mpc = "c_join" => buffer_mutex # "main"

\* The cleanup has run to its end after a run in which samples were played:
\* thread terminated, device closed, block freed.
C10_Witness ==
    /\ backend = "alsa"
    /\ mpc = "stopped"
    /\ ppc = "exited"
    /\ pcm = "CLOSED"
    /\ c64_buffer = << >>
    /\ Len(got) > 0

(***************************************************************************)
(* The encoder's output.                                                   *)
(***************************************************************************)
\* ceil(a / b)
CeilDiv(a, b) == (a + b - 1) \div b

\* Number of '=' the padding rule gives an input of n bytes.
PadChars(n) == CASE n % 3 = 0 -> 0
                 [] n % 3 = 1 -> 2
                 [] OTHER     -> 1

\* C18: once base64_encode has returned for an input of n bytes, it has
\* written exactly 4*ceil(n/3) characters and returned that number; the
\* output ends in no '=' when n mod 3 = 0, in exactly two when n mod 3 = 1,
\* in exactly one when n mod 3 = 2, and '=' stands nowhere else.
C18_EncodedLengthAndPadding ==
    b64_ret # -1 =>
        /\ b64_ret = 4 * CeilDiv(Len(data), 3)
        /\ Len(encoded_data) = b64_ret
        /\ \A k \in 1..Len(encoded_data) :
              (encoded_data[k] = "=") <=> (k > Len(encoded_data) - PadChars(Len(data)))

\* base64_encode returned for an input of four bytes: a whole group and a
\* last group of one byte, padded with two '='.
C18_Witness ==
    /\ b64_ret = 8
    /\ Len(data) = 4
    /\ encoded_data[7] = "="
    /\ encoded_data[8] = "="
    /\ encoded_data[6] # "="

\* The value of a character of the alphabet.
B64Value(c) == CHOOSE v \in 0..63 : base64_table[v + 1] = c

B64Alphabet == { base64_table[v] : v \in 1..64 }

\* A standard decoder (RFC 4648, with padding) accepts s: whole groups of
\* four, alphabet characters only, '=' only as the last one or two
\* characters, and no stray bits in the last character before the padding.
B64Accepts(s) ==
    /\ Len(s) % 4 = 0
    /\ \A k \in 1..Len(s) :
          \/ s[k] \in B64Alphabet
          \/ s[k] = "=" /\ k = Len(s)
          \/ s[k] = "=" /\ k = Len(s) - 1 /\ s[Len(s)] = "="
    /\ Len(s) > 0 /\ s[Len(s)] = "=" /\ s[Len(s) - 1] # "=" =>
          B64Value(s[Len(s) - 1]) % 4 = 0
    /\ Len(s) > 0 /\ s[Len(s) - 1] = "=" =>
          B64Value(s[Len(s) - 2]) % 16 = 0

\* The bytes the standard decoder gives for an accepted s, group by group.
RECURSIVE B64Decode(_)
B64Decode(s) ==
    IF s = << >> THEN << >>
    ELSE LET v1 == B64Value(s[1])
             v2 == B64Value(s[2])
             v3 == IF s[3] = "=" THEN 0 ELSE B64Value(s[3])
             v4 == IF s[4] = "=" THEN 0 ELSE B64Value(s[4])
             bits == v1 * 262144 + v2 * 4096 + v3 * 64 + v4
             bytes == << bits \div 65536, (bits \div 256) % 256, bits % 256 >>
             kept == IF s[3] = "=" THEN 1 ELSE IF s[4] = "=" THEN 2 ELSE 3
         IN SubSeq(bytes, 1, kept) \o B64Decode(SubSeq(s, 5, Len(s)))

\* C19: what base64_encode wrote is accepted by a standard decoder of the
\* same alphabet, and decodes to exactly the input bytes, for every input
\* length, multiples of 3 or not.
C19_RoundTrip ==
    b64_ret # -1 =>
        /\ B64Accepts(encoded_data)
        /\ B64Decode(encoded_data) = data

\* base64_encode returned for two bytes that differ: the last group is
\* padded with one '=' and the bytes come back in their order.
C19_Witness ==
    /\ b64_ret = 4
    /\ data = << 77, 97 >>
    /\ encoded_data = << "T", "W", "E", "=" >>
    /\ B64Decode(encoded_data) = << 77, 97 >>

(***************************************************************************)
(* The records of a frame.                                                 *)
(***************************************************************************)
\* kitty_update_display has just returned to the pacing loop.
EmitReturned == mpc = "m_pace"

WrittenForFrame(item) == item.of = frame_number
\* What the latest call of kitty_update_display wrote, flushed or not.
FrameItems == SelectSeq(terminal \o stdout_buf, WrittenForFrame)

IsAnimate(item) == item.esc /\ item.keys.a = "a"
IsTransmit(item) == item.esc /\ item.keys.a # "a"
\* The records of the latest call that carry the image.
TransmitRecords == SelectSeq(FrameItems, IsTransmit)

RECURSIVE Payloads(_)
\* The payloads of a sequence of records, one after the other.
Payloads(records) ==
    IF records = << >> THEN << >>
    ELSE records[1].payload \o Payloads(Tail(records))

\* C11: when kitty_update_display returns, the image went out in exactly
\* ceil(encoded_size / chunk_size) records; each but the last has m=1 and a
\* payload of chunk_size characters, the last has m=0, and the payloads in
\* the order written are the base64 encoding of the framebuffer.
C11_ChunkedPayload ==
    EmitReturned =>
        LET records == TransmitRecords
            n == Len(records)
        IN /\ n = CeilDiv(encoded_size, chunk_size)
           /\ \A k \in 1..(n - 1) :
                 /\ records[k].keys.m = 1
                 /\ Len(records[k].payload) = chunk_size
           /\ records[n].keys.m = 0
           /\ Payloads(records) = base64_encode(fb)

\* A frame of three pixels went out in two records: a whole chunk, then the
\* four characters left.
C11_Witness ==
    /\ EmitReturned
    /\ frame_number = 1
    /\ Len(TransmitRecords) = 2
    /\ Len(TransmitRecords[1].payload) = chunk_size
    /\ Len(TransmitRecords[2].payload) = 4
    /\ TransmitRecords[1].keys.m = 1

\* C12: in both personalities the first record of frame 0 is a create
\* (a=T) with the width, the height and the image id; the first record of a
\* later frame is not a create and carries the image id; the id is set at
\* startup and never changes afterwards.
C12_CreateThenUpdate ==
    /\ [](TransmitRecords # << >> =>
            LET first == TransmitRecords[1].keys
            IN /\ first.i = kitty_id
               /\ frame_number = 0 =>
                     first.a = "T" /\ first.s = width /\ first.v = height
               /\ frame_number > 0 => first.a \in {"t", "f"})
    /\ [][mpc # "m_start" => kitty_id' = kitty_id]_vars

\* The second frame of the default personality returned: its first record
\* is a=t with the id the create record of frame 0 carried.
C12_Witness ==
    /\ EmitReturned
    /\ ghostty_mode = 1
    /\ frame_number = 1
    /\ TransmitRecords[1].keys.a = "t"
    /\ TransmitRecords[1].keys.i = 11

\* C13: with --kitty every frame after frame 0 ends, after its last data
\* record, in exactly one animate record for the image id; in the default
\* personality no animate record is ever written; frame 0 has none in
\* either personality.
C13_AnimateRecord ==
    /\ ghostty_mode + kitty_mode = 1
    /\ ghostty_mode = 1 => SelectSeq(terminal \o stdout_buf, IsAnimate) = << >>
    /\ EmitReturned =>
          IF kitty_mode = 1 /\ frame_number > 0
             THEN /\ FrameItems = TransmitRecords \o << AnimateRecord >>
                  /\ TransmitRecords[Len(TransmitRecords)].keys.m = 0
             ELSE SelectSeq(FrameItems, IsAnimate) = << >>

\* The third frame of the Kitty personality returned: two data records,
\* then the animate record.
C13_Witness ==
    /\ EmitReturned
    /\ kitty_mode = 1
    /\ frame_number = 2
    /\ Len(FrameItems) = 3
    /\ IsAnimate(FrameItems[3])
    /\ FrameItems[3].keys.i = kitty_id

\* C14: when kitty_update_display returns, nothing it wrote is left in the
\* stream's buffer: every record of the frame, a trailing animate record
\* included, has been flushed.
C14_FlushedOnReturn ==
    EmitReturned => stdout_buf = << >>

(***************************************************************************)
(* The pacing loop.                                                        *)
(***************************************************************************)
\* The steps main takes once quit_requested is set: the rest of the
\* iteration, the loop test, the cleanup.
QuitPath ==
    { << "m_display", "k_while" >>, << "k_while", "k_while" >>,
      << "k_while", "m_pace" >>, << "m_pace", "m_load" >>,
      << "m_load", "m_while" >>, << "m_while", "m_cleanup" >>,
      << "m_cleanup", "m_exited" >> }

\* main has returned.
Stopped == mpc = "m_exited"

C16_DriftWithinOneQuantum ==
    max_elapsed <= FRAME_USEC =>
        /\ delta_us >= -FRAME_USEC
        /\ delta_us <= FRAME_USEC

\* The third pacing step, every iteration having taken a whole quantum or
\* less: the drift is minus one quantum, as it was in the second.
C16_Witness ==
    /\ mpc = "m_load"
    /\ frame = 3
    /\ max_elapsed = FRAME_USEC
    /\ delta_us = -FRAME_USEC
    /\ to_sleep_us = 0

\* C17: the call of kitty_update_display in which malloc fails writes
\* nothing to stdout for its frame, writes the failure message to stderr,
\* and returns to the pacing step of the same iteration with the loop still
\* running.
C17_NoMemorySkipsFrame ==
    [][mpc = "m_display" /\ mpc' = "m_pace" =>
          /\ stdout_buf' = stdout_buf
          /\ FrameItems' = << >>
          /\ stderr_log' = Append(stderr_log, "Memory allocation failed")
          /\ frame' = frame + 1
          /\ quit_requested' = quit_requested
          /\ exit_code' = -1]_vars

\* malloc failed for frame 0: nothing reached the terminal, the message is
\* on stderr, and the loop is in its next iteration.
C17_Witness ==
    /\ mpc = "m_keyboard"
    /\ execs = 2
    /\ frame = 1
    /\ stderr_log = << "Memory allocation failed" >>
    /\ terminal = << >>
    /\ stdout_buf = << >>

(***************************************************************************)
(* What is done under the lock.                                            *)
(***************************************************************************)
\* The step of audio_from_emulator that finds the queue full:
\* printf("!"); fflush(stdout);
PushPrintsOverflow == mpc = "p_check" /\ mpc' = "p_drop"

\* The step of playback_thread_func that finds the queue empty:
\* printf("."); fflush(stdout);
PopPrintsUnderrun == ppc = "t_check" /\ ppc' = "t_unlock"

\* C20: no step that writes to stdout and flushes it is taken while
\* buffer_mutex is held: the critical sections of the push and of the pop
\* do in-memory work on the queue only.
C20_NoIOUnderLock ==
    [][PushPrintsOverflow \/ PopPrintsUnderrun => buffer_mutex = "none"]_vars

(***************************************************************************)
(* The sleep of the pacing step.                                           *)
(***************************************************************************)
\* The pacing step of an iteration has just been taken.
Paced == mpc = "m_load"

\* C28: whatever real time the work of the iterations took, the sleep the
\* pacing step computes is at most two quanta in the first iteration and at
\* most one quantum in every later one, and when the iteration ends the
\* real time elapsed since the loop started is at least the emulated time.
C28_SleepBounded ==
    Paced =>
        /\ frame = 1 => to_sleep_us <= 2 * FRAME_USEC
        /\ frame > 1 => to_sleep_us <= FRAME_USEC
        /\ Elapsed(now) >= total_us_emulated

\* The second iteration's work took more than a quantum after a first one
\* that took none: the loop is late and does not sleep.
C28_Witness ==
    /\ Paced
    /\ frame = 2
    /\ max_elapsed > FRAME_USEC
    /\ delta_us < -FRAME_USEC
    /\ to_sleep_us < 0
    /\ Elapsed(now) > total_us_emulated + FRAME_USEC

(***************************************************************************)
(* The order of the records of the image.                                  *)
(***************************************************************************)
\* A record that changes or shows an image that exists: a=t, a=f or a=a.
IsUpdate(item) == item.esc /\ item.keys.a \in {"t", "f", "a"}

\* C27: no a=t, a=f or a=a record has been written to stdout unless a
\* create record (a=T) for the image was written before it, also in runs
\* where malloc failed in kitty_update_display and the frame was skipped.
C27_NoUpdateBeforeCreate ==
    SelectSeq(terminal \o stdout_buf, IsUpdate) # << >> => create_sent

(***************************************************************************)
(* The load of the PRG file.                                               *)
(***************************************************************************)
\* C23: load_prg_file is called at most once in a run, only in the
\* iteration in which frame equals PRG_LOAD_FRAME and only when a file name
\* was given; whatever comes of the call, the program is back at the loop
\* test afterwards, still running, its quit flag untouched.
C23_LoadOnceAndLoopGoesOn ==
    /\ [](/\ prg_loads <= 1
          /\ prg_filename = "NULL" => prg_loads = 0)
    /\ [][prg_loads' # prg_loads =>
             /\ frame = PRG_LOAD_FRAME
             /\ prg_filename # "NULL"
             /\ mpc' = "m_while"
             /\ exit_code' = -1
             /\ quit_requested' = quit_requested]_vars

(***************************************************************************)
(* C24. Under every interleaving of pushes by the pacing thread and pops   *)
(* by the ALSA playback thread, the samples removed so far, in removal     *)
(* order, are a prefix of the accepted samples in push order; and whenever *)
(* no pop is between its memmove and its length update, the removed        *)
(* samples followed by the queue are exactly the accepted samples, so none *)
(* was removed twice, reordered or skipped.                                *)
(***************************************************************************)
IsPrefix(s, t) == Len(s) <= Len(t) /\ s = SubSeq(t, 1, Len(s))

FlagCleared == backend = "alsa" /\ ppc # "none" /\ thread_running = 0

C22_ThreadExitsAfterStop ==
    /\ [][(FlagCleared /\ ppc = "t_while") => ppc' \in {"t_while", "t_free"}]_vars
    /\ []((FlagCleared /\ ppc = "t_err") => [](ppc # "t_write"))
    /\ (backend = "alsa" /\ mpc = "c_join") ~> (mpc = "stopped")

\* The flag was cleared while the thread was in an iteration: that
\* iteration's device write is in progress with the flag already cleared.
C22_Witness ==
    /\ FlagCleared
    /\ mpc = "c_join"
    /\ ppc = "t_write"
    /\ samples_to_copy > 0

(***************************************************************************)
(* C25. A push whose realloc fails leaves the queue as it was: the step    *)
(* from the realloc to the failure exit changes neither the block nor the  *)
(* length; and in every state where the queue has not been released, a     *)
(* length above 0 means the block holds that many written samples.         *)
(***************************************************************************)
Backed ==
    /\ Len(c64_buffer) >= c64_buffer_len
    /\ \A i \in 1..c64_buffer_len : c64_buffer[i] # Uninit

C25_FailedReallocLeavesQueue ==
    /\ []((backend = "alsa" /\ ~QueueReleased /\ c64_buffer_len > 0) => Backed)
    /\ [][(mpc = "p_realloc" /\ mpc' = "p_unlock") =>
             (c64_buffer' = c64_buffer /\ c64_buffer_len' = c64_buffer_len)]_vars

(***************************************************************************)
(* C26. audio_cleanup, run by a failing audio_init, waits in pthread_join  *)
(* only for a thread that was created.                                     *)
(***************************************************************************)
C26_JoinOnlyCreatedThread ==
    (backend = "alsa" /\ mpc = "c_join") => ppc # "none"

(***************************************************************************)
(* C21. The macOS backend takes no lock around the queue: the mutex is     *)
(* never held, and only a push and a pop that overlapped make the queue    *)
(* inconsistent (as long as no call of audio_from_emulator overlapped a    *)
(* call of BufferCallback, the samples delivered followed by the queue are *)
(* the accepted samples). The inconsistent state the claim speaks of is    *)
(* C21_Witness: it is reached by one push and one pop.                     *)
(***************************************************************************)
MacConvert(s) == [i \in 1..Len(s) |-> TruncDiv(s[i][1] * 32367, s[i][2])]

C21_NoLockRaceOnly ==
    backend = "macos" =>
        /\ buffer_mutex = "none"
        /\ (~calls.overlapped /\ ppc = "cb_idle") =>
              got \o Queue = MacConvert(accepted)

\* One push of two different samples and one pop have both returned, having
\* overlapped: both samples were accepted and one was delivered, yet what
\* is queued is the delivered sample again, not the second one, which is
\* lost.
C21_Witness ==
    /\ backend = "macos"
    /\ mpc = "exec"
    /\ ppc = "cb_idle"
    /\ calls.pushes = 1
    /\ calls.pops = 1
    /\ calls.overlapped
    /\ Len(accepted) = 2
    /\ MacConvert(accepted)[1] # MacConvert(accepted)[2]
    /\ got = << MacConvert(accepted)[1] >>
    /\ c64_buffer_len = 1
    /\ Queue = got

====
